---- MODULE Spec2Model ----
(***************************************************************************)
(* Model of tool-chatter (src/main.rs): a filter that reads log lines from *)
(* stdin, decodes the JSON payload that starts at the first "{" of a line, *)
(* files every chat event under its meeting and chat, collapses adjacent   *)
(* messages with equal text, and finally prints the number of meetings and *)
(* one block per meeting.                                                  *)
(*                                                                         *)
(* A line is a sequence of tokens.  A token is a piece of text; the token  *)
(* "obj}" stands for the remainder of a syntactically valid JSON object    *)
(* and carries the five leaves main() looks at.  JSON leaves are null (an  *)
(* absent path indexes to null in the json crate), strings or integers.    *)
(* Time stamps are kept as milliseconds since the epoch, which is what     *)
(* epoch + Duration::milliseconds(ms) denotes; they are drawn from the     *)
(* range NaiveDateTime can represent.                                      *)
(***************************************************************************)
EXTENDS Integers, Sequences, FiniteSets, TLC

VARIABLES
    remaining,  \* number of lines of stdin not yet read
    pc,         \* "reading", "done" (main returned) or "panicked"
    meetings,   \* the HashMap<String, Meeting> of main()
    output,     \* what has been written to stdout, one item per println!
    output2,    \* stdout of a second run on the same input (SpecTwice only)
    log         \* the lines read so far, oldest first

vars == <<remaining, pc, meetings, output, output2, log>>

\* --------------------------------------------------------------------------
\* Bounds

MaxLines == 3

\* --------------------------------------------------------------------------
\* JSON values and their textual coercion

Null == [k |-> "null", s |-> "", n |-> 0]

Str(x) == [k |-> "str", s |-> x, n |-> 0]

Num(i) == [k |-> "num", s |-> "", n |-> i]

Digit == <<"0", "1", "2", "3", "4", "5", "6", "7", "8", "9">>

RECURSIVE NatToString(_)
NatToString(i) ==
    IF i < 10 THEN Digit[i + 1]
    ELSE NatToString(i \div 10) \o Digit[(i % 10) + 1]

\* JsonValue::to_string(): a string prints as itself (no quotes), null as
\* "null", a number in decimal.
to_string(v) ==
    CASE v.k = "str" -> v.s
      [] v.k = "num" -> IF v.n < 0 THEN "-" \o NatToString(-v.n)
                        ELSE NatToString(v.n)
      [] OTHER -> "null"

\* JsonValue::as_i64(): Some(n) for an integer, None otherwise.
is_i64(v) == v.k = "num"

as_i64(v) == v.n

\* --------------------------------------------------------------------------
\* Lines

Event(ts, mid, cid, name, msg) ==
    [timestamp |-> ts, meetingId |-> mid, chatId |-> cid,
     name |-> name, message |-> msg]

EmptyObject == Event(Null, Null, Null, Null, Null)

Tok(c) == [c |-> c, v |-> EmptyObject]

ObjTail(ev) == [c |-> "obj}", v |-> ev]

Typical(ts) == Event(ts, Str("m1"), Str("c1"), Str("Al"), Str("hi"))

OptionalFields == {"meetingId", "chatId", "name", "message"}

\* Events with an integer time stamp: the typical event, the events that
\* differ from it in one field, and the object without any optional field
GoodEvents ==
    { ev \in [timestamp : {Num(1000), Num(2000)},
              meetingId : {Str("m1"), Null},
              chatId : {Str("c1"), Null},
              name : {Str("Al"), Null},
              message : {Str("hi"), Null, Num(7)}] :
        \/ Cardinality({f \in OptionalFields : ev[f] # Typical(ev.timestamp)[f]}) <= 1
        \/ \A f \in OptionalFields : ev[f] = Null }

BadEvents ==
    { Event(Null, Str("m1"), Str("c1"), Str("Al"), Str("hi")),
      Event(Str("x"), Null, Str("c1"), Str("Al"), Str("hi")) }

PlainLines == { <<Tok("a")>>, <<Tok("b"), Tok("}")>> }

MalformedLines == { <<Tok("a"), Tok("{"), Tok("b"), Tok("{")>> }

EventLines == { <<Tok("a"), Tok("{"), ObjTail(ev)>> : ev \in GoodEvents \cup BadEvents }

Lines == PlainLines \cup MalformedLines \cup EventLines

\* line.find("{"): position of the first "{", 0 for None
find(line) ==
    IF \E i \in 1..Len(line) : line[i].c = "{"
    THEN CHOOSE i \in 1..Len(line) :
            /\ line[i].c = "{"
            /\ \A j \in 1..(i - 1) : line[j].c # "{"
    ELSE 0

\* &line[start_pos..]
slice(line, start_pos) == SubSeq(line, start_pos, Len(line))

\* json::parse(text) is Ok exactly when the text is one complete object.
parse_ok(text) == Len(text) = 2 /\ text[1].c = "{" /\ text[2].c = "obj}"

parse(text) == text[2].v

\* --------------------------------------------------------------------------
\* Vec::dedup_by(|s, o| s.message == o.message): an element is removed when
\* the closure holds for it and the last element retained before it.

\* faulty variant: compares whole messages instead of their text
same_bucket_full(s, o) == s = o

same_bucket(s, o) == s.message = o.message

RECURSIVE dedup_from(_, _, _)
dedup_from(v, i, kept) ==
    IF i > Len(v) THEN kept
    ELSE IF same_bucket(v[i], kept[Len(kept)])
         THEN dedup_from(v, i + 1, kept)
         ELSE dedup_from(v, i + 1, Append(kept, v[i]))

\* faulty variant: drops a message whose text occurred anywhere before
RECURSIVE dedup_all_from(_, _, _)
dedup_all_from(v, i, kept) ==
    IF i > Len(v) THEN kept
    ELSE IF \E j \in 1..Len(kept) : v[i].message = kept[j].message
         THEN dedup_all_from(v, i + 1, kept)
         ELSE dedup_all_from(v, i + 1, Append(kept, v[i]))

dedup_by_all(v) == IF Len(v) <= 1 THEN v ELSE dedup_all_from(v, 2, <<v[1]>>)

dedup_by(v) == IF Len(v) <= 1 THEN v ELSE dedup_from(v, 2, <<v[1]>>)

\* --------------------------------------------------------------------------
\* The aggregate

Message(author, message, time) ==
    [author |-> author, message |-> message, time |-> time]

\* HashMap::new()
EmptyMap == [k \in {} |-> 0]

Chat(chat_id) == [chat_id |-> chat_id, messages |-> <<>>]

Meeting(meeting_id, time) ==
    [meeting_id |-> meeting_id, time |-> time, chats |-> EmptyMap]

\* HashMap::insert for a key that may be new
insert(map, key, val) ==
    [k \in DOMAIN map \cup {key} |-> IF k = key THEN val ELSE map[k]]

\* faulty variant: inserts a fresh meeting even when one exists
ensure_meeting_reset(ms, meeting_id, time) ==
    insert(ms, meeting_id, Meeting(meeting_id, time))

\* faulty variant: an existing meeting takes the time of the latest event
ensure_meeting_latest(ms, meeting_id, time) ==
    IF meeting_id \notin DOMAIN ms
    THEN insert(ms, meeting_id, Meeting(meeting_id, time))
    ELSE [ms EXCEPT ![meeting_id].time = time]

\* lines 104-114: create the meeting if it does not exist yet
ensure_meeting(ms, meeting_id, time) ==
    IF meeting_id \notin DOMAIN ms
    THEN insert(ms, meeting_id, Meeting(meeting_id, time))
    ELSE ms

\* lines 125-132: create the chat if it does not exist yet
ensure_chat(chats, chat_id) ==
    IF chat_id \notin DOMAIN chats
    THEN insert(chats, chat_id, Chat(chat_id))
    ELSE chats

\* faulty variant: a message whose text was absent is not stored
push_message_skip(chat, m) ==
    IF m.message = to_string(Null) THEN chat
    ELSE [chat EXCEPT !.messages = dedup_by(Append(chat.messages, m))]

\* lines 139-146: push, then collapse
push_message(chat, m) ==
    [chat EXCEPT !.messages = dedup_by(Append(chat.messages, m))]

\* lines 97-146: the Ok(data) arm for an event whose time stamp is an integer
add_event(ms, data) ==
    LET time == as_i64(data.timestamp)
        meeting_id == to_string(data.meetingId)
        ms1 == ensure_meeting(ms, meeting_id, time)
        chat_id == to_string(data.chatId)
        chats1 == ensure_chat(ms1[meeting_id].chats, chat_id)
        m == Message(to_string(data.name), to_string(data.message), time)
        chats2 == [chats1 EXCEPT ![chat_id] = push_message(chats1[chat_id], m)]
    IN [ms1 EXCEPT ![meeting_id].chats = chats2]

\* --------------------------------------------------------------------------
\* Rendering

MsPerMinute == 60000

MinutesPerDay == 1440

\* time.format("%d.%m.%Y %H:%M"): the time stamp to the minute
format_date_minute(t) == t \div MsPerMinute

\* time.format("%H:%M"): the minute of the day
format_minute(t) == (t \div MsPerMinute) % MinutesPerDay

\* Display for Message
fmt_message(m) == <<format_minute(m.time), m.author, m.message>>

\* Display for Chat
fmt_chat(chat) ==
    <<chat.chat_id, [i \in 1..Len(chat.messages) |-> fmt_message(chat.messages[i])]>>

\* All orders in which a HashMap with the given keys may be iterated
Orders(keys) ==
    { o \in [1..Cardinality(keys) -> keys] :
        \A i, j \in 1..Cardinality(keys) : i # j => o[i] # o[j] }

\* Display for Meeting, its chats visited in the order chatOrder
fmt_meeting(meeting, chatOrder) ==
    <<"meeting", format_date_minute(meeting.time), meeting.meeting_id,
      [i \in 1..Len(chatOrder) |-> fmt_chat(meeting.chats[chatOrder[i]])]>>

\* lines 158-162: the count line, then every meeting in iteration order
report(ms, order, chatOrders) ==
    <<  <<"count", Cardinality(DOMAIN ms)>>  >> \o
    [i \in 1..Len(order) |-> fmt_meeting(ms[order[i]], chatOrders[order[i]])]

ChatOrders(ms) ==
    { co \in [DOMAIN ms -> UNION { Orders(DOMAIN ms[k].chats) : k \in DOMAIN ms }] :
        \A k \in DOMAIN ms : co[k] \in Orders(DOMAIN ms[k].chats) }

\* --------------------------------------------------------------------------
\* The program

Init ==
    /\ remaining \in 0..MaxLines
    /\ pc = "reading"
    /\ meetings = EmptyMap
    /\ output = <<>>
    /\ output2 = <<>>
    /\ log = <<>>

Read(line) ==
    /\ pc = "reading"
    /\ remaining > 0
    /\ remaining' = remaining - 1
    /\ log' = Append(log, line)

\* faulty variant: the line is read and dropped
PassThrough_swallow(line) ==
    /\ Read(line)
    /\ find(line) = 0
    /\ UNCHANGED <<pc, meetings, output, output2>>

\* line 154: a line without "{" is echoed
PassThrough(line) ==
    /\ Read(line)
    /\ find(line) = 0
    /\ output' = Append(output, <<"echo", line>>)
    /\ UNCHANGED <<pc, meetings, output2>>

\* faulty variant: prints the whole line instead of the payload text
DecodeFailure_whole(line) ==
    /\ Read(line)
    /\ find(line) # 0
    /\ ~parse_ok(slice(line, find(line)))
    /\ output' = Append(output, <<"error", line>>)
    /\ UNCHANGED <<pc, meetings, output2>>

\* lines 148-151: the payload does not parse
DecodeFailure(line) ==
    /\ Read(line)
    /\ find(line) # 0
    /\ ~parse_ok(slice(line, find(line)))
    /\ output' = Append(output, <<"error", slice(line, find(line))>>)
    /\ UNCHANGED <<pc, meetings, output2>>

\* faulty variant: the line is skipped and reading continues
TimestampFailure_skip(line) ==
    /\ Read(line)
    /\ find(line) # 0
    /\ parse_ok(slice(line, find(line)))
    /\ ~is_i64(parse(slice(line, find(line))).timestamp)
    /\ UNCHANGED <<pc, meetings, output, output2>>

\* lines 98-101: expect() on a time stamp that is not an integer panics
TimestampFailure(line) ==
    /\ Read(line)
    /\ find(line) # 0
    /\ parse_ok(slice(line, find(line)))
    /\ ~is_i64(parse(slice(line, find(line))).timestamp)
    /\ pc' = "panicked"
    /\ UNCHANGED <<meetings, output, output2>>

\* lines 102-146: the event is filed
AddMessage(line) ==
    /\ Read(line)
    /\ find(line) # 0
    /\ parse_ok(slice(line, find(line)))
    /\ LET data == parse(slice(line, find(line)))
           meeting_id == to_string(data.meetingId)
       IN /\ is_i64(data.timestamp)
          /\ output' = IF meeting_id \notin DOMAIN meetings
                       THEN Append(output, <<"inserting", meeting_id>>)
                       ELSE output
          /\ meetings' = add_event(meetings, data)
    /\ UNCHANGED <<pc, output2>>

\* faulty variant: the report is printed without waiting for the end of input
Finish_early ==
    /\ pc = "reading"
    /\ pc' = "done"
    /\ \E o1 \in Orders(DOMAIN meetings), c1 \in ChatOrders(meetings) :
            output' = output \o report(meetings, o1, c1)
    /\ UNCHANGED <<remaining, meetings, log, output2>>

\* lines 158-162, after the end of the input
Finish ==
    /\ pc = "reading"
    /\ remaining = 0
    /\ pc' = "done"
    /\ \E o1 \in Orders(DOMAIN meetings), c1 \in ChatOrders(meetings) :
            output' = output \o report(meetings, o1, c1)
    /\ UNCHANGED <<remaining, meetings, log, output2>>

\* lines 158-162 in two runs of the program on the same lines: up to the
\* end of the input both have printed the same, then each iterates its own
\* HashMaps
FinishTwice ==
    /\ pc = "reading"
    /\ remaining = 0
    /\ pc' = "done"
    /\ \E o1 \in Orders(DOMAIN meetings), c1 \in ChatOrders(meetings) :
            output' = output \o report(meetings, o1, c1)
    /\ \E o2 \in Orders(DOMAIN meetings), c2 \in ChatOrders(meetings) :
            output2' = output \o report(meetings, o2, c2)
    /\ UNCHANGED <<remaining, meetings, log>>

Next ==
    \/ \E line \in Lines : PassThrough(line)
    \/ \E line \in Lines : DecodeFailure(line)
    \/ \E line \in Lines : TimestampFailure(line)
    \/ \E line \in Lines : AddMessage(line)
    \/ Finish

Spec == Init /\ [][Next]_vars

NextTwice ==
    \/ \E line \in Lines : PassThrough(line)
    \/ \E line \in Lines : DecodeFailure(line)
    \/ \E line \in Lines : TimestampFailure(line)
    \/ \E line \in Lines : AddMessage(line)
    \/ FinishTwice

\* two runs side by side
SpecTwice == Init /\ [][NextTwice]_vars

\* --------------------------------------------------------------------------
\* What the input says, read off the lines themselves

Last(s) == s[Len(s)]

NoBrace(l) == \A i \in 1..Len(l) : l[i].c # "{"

FirstBrace(l) == CHOOSE i \in 1..Len(l) : l[i].c = "{" /\ \A j \in 1..(i - 1) : l[j].c # "{"

PayloadText(l) == [i \in 1..(Len(l) - FirstBrace(l) + 1) |-> l[FirstBrace(l) + i - 1]]

Malformed(l) == ~NoBrace(l) /\ ~(FirstBrace(l) = Len(l) - 1 /\ Last(l).c = "obj}")

Decodes(l) == ~NoBrace(l) /\ FirstBrace(l) = Len(l) - 1 /\ Last(l).c = "obj}"

Fields(l) == Last(l).v

\* a decoded event whose envelope.timestamp is an integer
Filed(l) == Decodes(l) /\ Fields(l).timestamp.k = "num"

\* a decoded event whose envelope.timestamp is absent or not a number
Fatal(l) == Decodes(l) /\ Fields(l).timestamp.k # "num"

SessionOf(l) == to_string(Fields(l).meetingId)

ConversationOf(l) == to_string(Fields(l).chatId)

BodyOf(l) == to_string(Fields(l).message)

MessageOf(l) ==
    [author |-> to_string(Fields(l).name), message |-> BodyOf(l),
     time |-> Fields(l).timestamp.n]

\* the messages of the events read so far that name session S and
\* conversation C, in arrival order
Arrived(S, C) ==
    LET Here(l) == Filed(l) /\ SessionOf(l) = S /\ ConversationOf(l) = C
        sel == SelectSeq(log, Here)
    IN [i \in 1..Len(sel) |-> MessageOf(sel[i])]

\* drop every message whose body equals that of the message right before it
RECURSIVE Collapse(_)
Collapse(s) ==
    IF Len(s) <= 1 THEN s
    ELSE IF s[Len(s)].message = s[Len(s) - 1].message
         THEN Collapse(SubSeq(s, 1, Len(s) - 1))
         ELSE Append(Collapse(SubSeq(s, 1, Len(s) - 1)), s[Len(s)])

Conversations == { <<S, C>> \in UNION { {S} \X DOMAIN meetings[S].chats : S \in DOMAIN meetings } : TRUE }

MessagesOf(S, C) == meetings[S].chats[C].messages

\* the step reads one more line, namely Last(log')
ReadsLine == Len(log') = Len(log) + 1

Placeholder == "null"

\* --------------------------------------------------------------------------
\* C1: no conversation ever holds two adjacent messages with equal body, and
\* each conversation is exactly the events that arrived for it with every run
\* of equal bodies reduced to its first member (author and time of the first).
C1_AdjacentCollapse ==
    \A sc \in Conversations :
        LET msgs == MessagesOf(sc[1], sc[2])
        IN /\ \A i \in 1..(Len(msgs) - 1) : msgs[i].message # msgs[i + 1].message
           /\ msgs = Collapse(Arrived(sc[1], sc[2]))

\* a run of two equal bodies with different author and time was collapsed
C1_Witness ==
    \E sc \in Conversations :
        LET arr == Arrived(sc[1], sc[2])
        IN /\ Len(arr) = 2
           /\ arr[1].message = arr[2].message
           /\ arr[1].author # arr[2].author
           /\ arr[1].time # arr[2].time
           /\ MessagesOf(sc[1], sc[2]) = <<arr[1]>>

\* --------------------------------------------------------------------------
\* C2.  The run consisted of an event, an event with a different body, and
\* the first event again.
SameEventTwiceAround(l1, l2, l3) ==
    /\ Filed(l1) /\ Filed(l2) /\ l3 = l1
    /\ BodyOf(l2) # BodyOf(l1)

SameConversation(l1, l2) ==
    SessionOf(l1) = SessionOf(l2) /\ ConversationOf(l1) = ConversationOf(l2)

CountBody(msgs, b) == Cardinality({i \in 1..Len(msgs) : msgs[i].message = b})

\* C2 as stated: whatever the event in between, the conversation of the
\* repeated event holds two messages with its body.
C2_Original ==
    (Len(log) = 3 /\ SameEventTwiceAround(log[1], log[2], log[3]))
        => CountBody(MessagesOf(SessionOf(log[1]), ConversationOf(log[1])),
                     BodyOf(log[1])) = 2

\* C2 amended: when the event in between is filed in the same conversation,
\* both copies stay: the conversation ends with body, other body, body, and
\* in a run of just these three lines it holds exactly two messages with
\* that body.
C2_SeparatedDuplicatesKept ==
    \A n \in 3..Len(log) :
        (/\ n = Len(log)
         /\ SameEventTwiceAround(log[n - 2], log[n - 1], log[n])
         /\ SameConversation(log[n - 2], log[n - 1]))
        => LET msgs == MessagesOf(SessionOf(log[n]), ConversationOf(log[n]))
               k == Len(msgs)
           IN /\ k >= 3
              /\ msgs[k - 2].message = BodyOf(log[n])
              /\ msgs[k - 1].message = BodyOf(log[n - 1])
              /\ msgs[k] = MessageOf(log[n])
              /\ n = 3 => CountBody(msgs, BodyOf(log[n])) = 2

C2_Witness ==
    /\ Len(log) = 3
    /\ SameEventTwiceAround(log[1], log[2], log[3])
    /\ SameConversation(log[1], log[2])
    /\ Len(MessagesOf(SessionOf(log[1]), ConversationOf(log[1]))) = 3

\* --------------------------------------------------------------------------
\* C3: a conversation (S, C) exists exactly when an event naming S and C was
\* filed; every message stored under (S, C) is the message of such an event
\* and every such event has its body stored there; a step changes no
\* conversation but the one its event names, and creates no other.
C3_Located ==
    /\ Conversations = { <<SessionOf(log[i]), ConversationOf(log[i])>> :
                            i \in {j \in 1..Len(log) : Filed(log[j])} }
    /\ \A sc \in Conversations :
        LET msgs == MessagesOf(sc[1], sc[2])
            arr == Arrived(sc[1], sc[2])
        IN /\ meetings[sc[1]].meeting_id = sc[1]
           /\ meetings[sc[1]].chats[sc[2]].chat_id = sc[2]
           /\ \A i \in 1..Len(msgs) : \E j \in 1..Len(arr) : msgs[i] = arr[j]
           /\ \A j \in 1..Len(arr) : \E i \in 1..Len(msgs) : msgs[i].message = arr[j].message

C3_Frame ==
    LET target == IF ReadsLine /\ Filed(Last(log'))
                  THEN { <<SessionOf(Last(log')), ConversationOf(Last(log'))>> }
                  ELSE {}
    IN /\ \A sc \in Conversations \ target :
            /\ sc[1] \in DOMAIN meetings'
            /\ sc[2] \in DOMAIN meetings'[sc[1]].chats
            /\ meetings'[sc[1]].chats[sc[2]] = meetings[sc[1]].chats[sc[2]]
       /\ \A S \in DOMAIN meetings' : \A C \in DOMAIN meetings'[S].chats :
            <<S, C>> \in Conversations \cup target

C3_Partition == []C3_Located /\ [][C3_Frame]_vars

\* two sessions, one of them with two conversations, all holding messages
C3_Witness ==
    /\ Cardinality(DOMAIN meetings) = 2
    /\ Cardinality(Conversations) = 3
    /\ \A sc \in Conversations : Len(MessagesOf(sc[1], sc[2])) >= 1

\* --------------------------------------------------------------------------
\* C4: a line with "{" whose payload does not decode leaves the aggregate
\* as it was, prints the error with the payload text (the line from its
\* first "{" on), and the run goes on reading.
C4_Step ==
    (ReadsLine /\ Malformed(Last(log')))
        => /\ meetings' = meetings
           /\ pc' = "reading"
           /\ output' = Append(output, <<"error", PayloadText(Last(log'))>>)

C4_DecodeFailureSkipped == [][C4_Step]_vars

\* a malformed line was read, an event after it was filed, the run finished
C4_Witness ==
    /\ pc = "done"
    /\ \E i \in 1..(Len(log) - 1) :
        /\ Malformed(log[i])
        /\ Filed(log[i + 1])
        /\ Len(MessagesOf(SessionOf(log[i + 1]), ConversationOf(log[i + 1]))) = 1

\* --------------------------------------------------------------------------
\* What has been printed line by line while reading: an echo per line
\* without "{", an error per malformed payload, a notice per new session.
RECURSIVE Eager(_)
Eager(n) ==
    IF n = 0 THEN <<>>
    ELSE LET l == log[n]
         IN Eager(n - 1) \o
            (IF NoBrace(l) THEN << <<"echo", l>> >>
             ELSE IF Malformed(l) THEN << <<"error", PayloadText(l)>> >>
             ELSE IF Filed(l) /\ \A j \in 1..(n - 1) :
                        Filed(log[j]) => SessionOf(log[j]) # SessionOf(l)
                  THEN << <<"inserting", SessionOf(l)>> >>
                  ELSE <<>>)

IsReportItem(item) == item[1] \in {"count", "meeting"}

\* C5: a line without "{" is echoed unchanged at once and changes nothing in
\* the aggregate; the items printed while reading appear in input order, and
\* all of them before the count line and the report.
C5_Order ==
    LET e == Eager(Len(log))
    IN /\ Len(output) >= Len(e)
       /\ SubSeq(output, 1, Len(e)) = e
       /\ \A i \in (Len(e) + 1)..Len(output) : IsReportItem(output[i])

C5_Step ==
    (ReadsLine /\ NoBrace(Last(log')))
        => /\ output' = Append(output, <<"echo", Last(log')>>)
           /\ meetings' = meetings
           /\ pc' = pc

C5_PassThrough == []C5_Order /\ [][C5_Step]_vars

\* an echoed line sits between two other eager items, ahead of the report
C5_Witness ==
    /\ pc = "done"
    /\ Len(output) >= 4
    /\ output[1][1] # "echo"
    /\ output[2][1] = "echo"
    /\ output[3][1] \in {"error", "inserting"}
    /\ output[4][1] = "count"

\* --------------------------------------------------------------------------
\* C6: two runs on the same input print the same (under SpecTwice).
C6_Deterministic == pc = "done" => output = output2

\* --------------------------------------------------------------------------
\* C7: a decoded payload whose time stamp is absent or not a number ends the
\* run at that line: nothing is created from it, nothing is printed, no
\* further line is read and the count line and the report never appear.
C7_Step ==
    /\ (ReadsLine /\ Fatal(Last(log')))
            => /\ pc' = "panicked"
               /\ meetings' = meetings
               /\ output' = output
    /\ pc = "panicked" => UNCHANGED vars

C7_Stopped ==
    pc = "panicked"
        => /\ Fatal(Last(log))
           /\ \A i \in 1..Len(output) : ~IsReportItem(output[i])

C7_FatalTimestamp == []C7_Stopped /\ [][C7_Step]_vars

\* the run died with lines unread, after it had filed an event
C7_Witness ==
    /\ pc = "panicked"
    /\ remaining > 0
    /\ Len(log) >= 2
    /\ Cardinality(DOMAIN meetings) = 1
    /\ \/ Fields(Last(log)).timestamp.k = "null"
       \/ SessionOf(Last(log)) \notin DOMAIN meetings

\* --------------------------------------------------------------------------
\* C8: an event with an integer time stamp that lacks optional fields is
\* filed like any other: the run goes on, no error is printed, and its
\* message, with "null" for every absent field, is the last message of the
\* conversation named by its ids ("null" for an absent id), unless the
\* message before it had the same body.
Coerced(v, text) == IF v.k = "null" THEN text = Placeholder ELSE TRUE

LacksField(l) == \E f \in OptionalFields : Fields(l)[f].k = "null"

C8_Step ==
    (ReadsLine /\ Filed(Last(log')) /\ LacksField(Last(log')))
        => LET l == Last(log')
               d == Fields(l)
               S == IF d.meetingId.k = "null" THEN Placeholder ELSE SessionOf(l)
               C == IF d.chatId.k = "null" THEN Placeholder ELSE ConversationOf(l)
               old == IF S \in DOMAIN meetings /\ C \in DOMAIN meetings[S].chats
                      THEN meetings[S].chats[C].messages ELSE <<>>
               new == meetings'[S].chats[C].messages
               m == [author |-> IF d.name.k = "null" THEN Placeholder
                                ELSE to_string(d.name),
                     message |-> IF d.message.k = "null" THEN Placeholder
                                 ELSE to_string(d.message),
                     time |-> d.timestamp.n]
           IN /\ pc' = "reading"
              /\ \A i \in 1..Len(output') : output'[i][1] # "error"
                    \/ i <= Len(output)
              /\ S \in DOMAIN meetings' /\ C \in DOMAIN meetings'[S].chats
              /\ IF old # <<>> /\ Last(old).message = m.message
                 THEN new = old
                 ELSE new = Append(old, m)

C8_OptionalFields == [][C8_Step]_vars

\* events without meetingId share the session "null"; one without sender and
\* one without body were stored with the placeholder
C8_Witness ==
    /\ Placeholder \in DOMAIN meetings
    /\ \E i, j \in 1..Len(log) :
        /\ i # j
        /\ Filed(log[i]) /\ Filed(log[j])
        /\ Fields(log[i]).meetingId.k = "null"
        /\ Fields(log[j]).meetingId.k = "null"
        /\ Fields(log[i]) # Fields(log[j])
    /\ \E sc \in Conversations : \E i \in 1..Len(MessagesOf(sc[1], sc[2])) :
        MessagesOf(sc[1], sc[2])[i].author = Placeholder
    /\ \E sc \in Conversations : \E i \in 1..Len(MessagesOf(sc[1], sc[2])) :
        MessagesOf(sc[1], sc[2])[i].message = Placeholder

\* --------------------------------------------------------------------------
\* C9 as stated: nothing is printed while unread lines remain.
C9_Original == output # <<>> => remaining = 0

\* C9 amended: the count line and the report are printed only after all of
\* the input has been read (echoes, error reports and session notices are
\* printed at once, while lines may remain).
C9_ReportAfterInput ==
    (\E i \in 1..Len(output) : IsReportItem(output[i]))
        => remaining = 0 /\ pc = "done"

C9_Witness ==
    /\ pc = "done"
    /\ Len(log) >= 2
    /\ \E i \in 1..Len(output) : ~IsReportItem(output[i])
    /\ \E i \in 1..Len(output) : output[i][1] = "meeting"

\* --------------------------------------------------------------------------
\* C10: the sessions are exactly the session ids of the events filed so
\* far, the start time of each is the time stamp of the first event that
\* named it, and no step removes a session or changes a start time.
FirstFiled(S) ==
    CHOOSE i \in 1..Len(log) :
        /\ Filed(log[i]) /\ SessionOf(log[i]) = S
        /\ \A j \in 1..(i - 1) : ~(Filed(log[j]) /\ SessionOf(log[j]) = S)

C10_Sessions ==
    /\ DOMAIN meetings = { SessionOf(log[i]) : i \in {j \in 1..Len(log) : Filed(log[j])} }
    /\ \A S \in DOMAIN meetings :
        meetings[S].time = Fields(log[FirstFiled(S)]).timestamp.n

C10_Step ==
    /\ \A S \in DOMAIN meetings :
        S \in DOMAIN meetings' /\ meetings'[S].time = meetings[S].time
    /\ \A S \in DOMAIN meetings' \ DOMAIN meetings :
        /\ ReadsLine /\ Filed(Last(log')) /\ SessionOf(Last(log')) = S
        /\ meetings'[S].time = Fields(Last(log')).timestamp.n
        /\ output' = Append(output, <<"inserting", S>>)

C10_StartTime == []C10_Sessions /\ [][C10_Step]_vars

\* a session holds a message older than its start time
C10_Witness ==
    \E sc \in Conversations : \E i \in 1..Len(MessagesOf(sc[1], sc[2])) :
        MessagesOf(sc[1], sc[2])[i].time < meetings[sc[1]].time

====
